---- MODULE Spec2Model ----
(***************************************************************************)
(* A model of stockwatcher.go: the price store (quotes map + mutex), one   *)
(* polling cycle (runner and its worker goroutines), the display pass      *)
(* (formatData), price extraction (re + convertPrice) and main's startup,  *)
(* loop and shutdown, together with the event-posting goroutine.           *)
(*                                                                         *)
(* Prices are held in hundredths (100.00 is 10000): every price the        *)
(* program stores is either the literal 0.00 or the value of a decimal     *)
(* string ending in ".dd".  Strings are sequences of one-character         *)
(* strings.                                                                *)
(***************************************************************************)
EXTENDS Integers, Sequences, FiniteSets, TLC

\* ------------------------------------------------------------------ bounds

\* Longest -s list (number of comma-separated symbols) tried at startup.
MaxSyms == 2

\* Number of runner() cycles main may start.
MaxCycles == 2

\* Number of events termbox.PollEvent() may deliver.
MaxEvents == 2

\* Largest -i value tried (the interval is a positive number of seconds).
MaxInterval == 1

\* Longest raw price string of the price-extraction specification.
MaxRawLen == 6

\* --------------------------------------------------------------- universe

\* Ticker symbols: what -s may list and what a response may echo.
Symbols == {"AAPL", "aapl"}

\* The bytes of a symbol, for sort.Strings' byte-wise order.
Bytes(s) ==
  CASE s = "AAPL" -> <<65, 65, 80, 76>>
    [] s = "aapl" -> <<97, 97, 112, 108>>

\* The value of flag -i when it is not given.
DefaultInterval == 1

Intervals == 1..MaxInterval

\* Characters of raw price fields.
Digits == {"0", "1", "5"}

Chars == Digits \cup {".", "N"}

DigitVal(c) == CASE c = "0" -> 0 [] c = "1" -> 1 [] c = "5" -> 5

\* Raw price fields the remote source answers with in the whole-program
\* specification: "100.00", "110.004", "5.25" and "N.1" (no leading digit).
RawPrices ==
  { <<"1", "0", "0", ".", "0", "0">>,
    <<"1", "1", "0", ".", "0", "0", "5">>,
    <<"5", ".", "1", "5">>,
    <<"N", ".", "1">> }

\* ------------------------------------------------------- price extraction

IsDigit(c) == c \in Digits

Max(S) == CHOOSE x \in S : \A y \in S : y <= x

\* The positions where a match of  ^\d.+\.\d{2}  can end: a digit at 1, one
\* or more characters, then a dot and two digits.
reEnds(p) ==
  { e \in 5..Len(p) :
      /\ IsDigit(p[1])
      /\ p[e - 2] = "."
      /\ IsDigit(p[e - 1])
      /\ IsDigit(p[e]) }

\* re.FindString(p): the leftmost match, .+ greedy, so the longest one; the
\* empty string when there is none.
reFindString(p) ==
  IF reEnds(p) = {} THEN <<>> ELSE SubSeq(p, 1, Max(reEnds(p)))

\* Position of the first dot of s, Len(s) + 1 when it has none.
DotAt(s) ==
  IF \E i \in 1..Len(s) : s[i] = "."
  THEN CHOOSE i \in 1..Len(s) : s[i] = "." /\ \A j \in 1..(i - 1) : s[j] # "."
  ELSE Len(s) + 1

RECURSIVE NatOf(_)
\* The number a string of digits writes.
NatOf(s) ==
  IF Len(s) = 0 THEN 0
  ELSE 10 * NatOf(SubSeq(s, 1, Len(s) - 1)) + DigitVal(s[Len(s)])

\* Whether strconv.ParseFloat(s, 64) accepts s: over these characters, digits
\* with at most one dot and at least one digit.
ParseFloatOk(s) ==
  /\ \A i \in 1..Len(s) : IsDigit(s[i]) \/ s[i] = "."
  /\ Cardinality({i \in 1..Len(s) : s[i] = "."}) <= 1
  /\ \E i \in 1..Len(s) : IsDigit(s[i])

\* The value ParseFloat gives, in hundredths.  Its callers pass a match of
\* re, which when accepted ends in a dot and exactly two digits.
ParseFloat(s) ==
  LET d == DotAt(s)
      frac == SubSeq(s, d + 1, Len(s)) \o <<"0", "0">>
  IN 100 * NatOf(SubSeq(s, 1, d - 1)) + NatOf(SubSeq(frac, 1, 2))

\* convertPrice(p): the price, or log.Fatalln when ParseFloat fails.
convertPrice(p) ==
  IF ParseFloatOk(p) THEN [fatal |-> FALSE, price |-> ParseFloat(p)]
  ELSE [fatal |-> TRUE, price |-> 0]

\* ------------------------------------------------------------ price store

\* The map a fresh entry holds: map[string]float64{}.
EmptyEntry == [f \in {} |-> 0]

\* t.quotes[s][f]: a missing symbol or a missing field reads as 0.
Get(q, s, f) ==
  IF s \in DOMAIN q /\ f \in DOMAIN q[s] THEN q[s][f] ELSE 0

\* t.quotes[s] = e
Put(q, s, e) == [x \in (DOMAIN q) \cup {s} |-> IF x = s THEN e ELSE q[x]]

\* add with the bug of storing a fresh entry whether or not one is there.
add_Overwrites(q, symbol) == Put(q, symbol, EmptyEntry)

\* The body of add, under the mutex.
add(q, symbol) == IF symbol \in DOMAIN q THEN q ELSE Put(q, symbol, EmptyEntry)

\* updateStock with the bug of leaving "previous" as it was.
updateStock_KeepsPrevious(q, symbol, price) ==
  Put(q, symbol, [previous |-> Get(q, symbol, "previous"), current |-> price])

\* updateStock with the bug of assigning a fresh map holding one entry.
updateStock_ReplacesMap(q, symbol, price) ==
  [x \in {symbol} |->
     [previous |-> Get(q, symbol, "current"), current |-> price]]

\* updateStock with the bug of leaving "previous" alone when the price is
\* the 0.00 of a failed fetch.
updateStock_ZeroKeepsPrevious(q, symbol, price) ==
  Put(q, symbol,
      [previous |-> IF price = 0 THEN Get(q, symbol, "previous")
                    ELSE Get(q, symbol, "current"),
       current |-> price])

\* The body of updateStock, under the mutex.
updateStock(q, symbol, price) ==
  Put(q, symbol, [previous |-> Get(q, symbol, "current"), current |-> price])

\* ---------------------------------------------------------------- display

RECURSIVE BytesLess(_, _)
\* a < b for Go strings: byte-wise, a proper prefix first.
BytesLess(a, b) ==
  IF Len(b) = 0 THEN FALSE
  ELSE IF Len(a) = 0 THEN TRUE
  ELSE IF a[1] # b[1] THEN a[1] < b[1]
  ELSE BytesLess(Tail(a), Tail(b))

StrLess(a, b) == BytesLess(Bytes(a), Bytes(b))

RECURSIVE SortStrings(_)
\* sort.Strings over the keys collected from the map.
SortStrings(S) ==
  IF S = {} THEN <<>>
  ELSE LET least == CHOOSE x \in S : \A y \in S \ {x} : StrLess(x, y)
       IN <<least>> \o SortStrings(S \ {least})

UP == "UP"

DOWN == "DOWN"

RECURSIVE LongDiv(_, _, _, _)
\* n more decimal places of a quotient: <<quotient so far, remainder>>.
LongDiv(acc, r, p, n) ==
  IF n = 0 THEN <<acc, r>>
  ELSE LongDiv(10 * acc + (10 * r) \div p, (10 * r) % p, p, n - 1)

\* current / previous as "%-.6f" prints it: in millionths, rounded.
Ratio(current, previous) ==
  LET d == LongDiv(current \div previous, current % previous, previous, 6)
  IN d[1] + (IF 2 * d[2] >= previous THEN 1 ELSE 0)

\* Row with the bug of comparing the two prices the wrong way round.
Row_SwappedCompare(q, k, pos) ==
  LET previous == Get(q, k, "previous")
      current == Get(q, k, "current")
  IN IF previous = 0 \/ previous = current
     THEN [y |-> pos, symbol |-> k, current |-> current, sign |-> "",
           figure |-> <<>>, arrow |-> "-", fg |-> "ColorWhite"]
     ELSE IF current < previous
     THEN [y |-> pos, symbol |-> k, current |-> current, sign |-> "+",
           figure |-> <<Ratio(current, previous)>>, arrow |-> UP,
           fg |-> "ColorGreen"]
     ELSE [y |-> pos, symbol |-> k, current |-> current, sign |-> "-",
           figure |-> <<Ratio(current, previous)>>, arrow |-> DOWN,
           fg |-> "ColorRed"]

\* The line formatData prints for key k at row pos, and its colour.
Row(q, k, pos) ==
  LET previous == Get(q, k, "previous")
      current == Get(q, k, "current")
  IN IF previous = 0 \/ previous = current
     THEN [y |-> pos, symbol |-> k, current |-> current, sign |-> "",
           figure |-> <<>>, arrow |-> "-", fg |-> "ColorWhite"]
     ELSE IF current > previous
     THEN [y |-> pos, symbol |-> k, current |-> current, sign |-> "+",
           figure |-> <<Ratio(current, previous)>>, arrow |-> UP,
           fg |-> "ColorGreen"]
     ELSE [y |-> pos, symbol |-> k, current |-> current, sign |-> "-",
           figure |-> <<Ratio(current, previous)>>, arrow |-> DOWN,
           fg |-> "ColorRed"]

\* formatData: the keys sorted, one printed row per key, pos counting from 1.
formatData(q) ==
  LET keys == SortStrings(DOMAIN q)
  IN [i \in 1..Len(keys) |-> Row(q, keys[i], i)]

\* ------------------------------------------------------------------ state

VARIABLES
  sSet,          \* whether -s was given on the command line
  iSet,          \* whether -i was given on the command line
  symbolFlag,    \* *symbolFlag as its comma-separated symbols (<<>> is ""):
                 \* the whole list up to the adds, then what is yet to add
  intervalFlag,  \* *intervalFlag
  mainPc,        \* where main is
  quotes,        \* t.quotes
  interval,      \* t.interval, in seconds (0 before NewStockWatcher)
  m,             \* t.m: "free", or the worker (its key) that holds it
  toVisit,       \* keys runner's range loop has yet to produce
  wpc,           \* where this cycle's worker for each key is
  warg,          \* the updateStock call each worker makes
  wg,            \* the WaitGroup's counter
  ppc,           \* where the event-posting goroutine is
  eventClosed,   \* whether close(event) has run
  polled,        \* how many events PollEvent has returned
  tbOpen,        \* whether termbox is initialised and not yet closed
  halt,          \* why the process ended, "none" while it runs
  cycles,        \* how many times runner has been entered
  screen,        \* the rows of the last formatData
  registered,    \* history: the symbols main has added
  fetched,       \* history: keys whose own query has ever succeeded
  atStart,       \* history: t.quotes as the current cycle found it
  raw,           \* price extraction alone: the raw price field
  extracted      \* price extraction alone: its outcome

vars ==
  <<sSet, iSet, symbolFlag, intervalFlag, mainPc, quotes, interval, m,
    toVisit, wpc, warg, wg, ppc, eventClosed, polled, tbOpen, halt, cycles,
    screen, registered, fetched, atStart, raw, extracted>>

\* The -s lists tried: up to MaxSyms symbols, repeats allowed.
SymbolLists == UNION {[1..n -> Symbols] : n \in 0..MaxSyms}

\* flag.NFlag(): the number of flags set on the command line.
NFlag == (IF sSet THEN 1 ELSE 0) + (IF iSet THEN 1 ELSE 0)

\* A worker that has not reached its updateStock call.
NoCall == [symbol |-> "", price |-> 0, ok |-> FALSE]

\* Price extraction not yet applied.
NotExtracted == [done |-> FALSE, fatal |-> FALSE, price |-> 0]

\* os.Exit's code for each way the process ends: flag.Usage and log.Fatal
\* exit 1, a panic or a runtime fault exits 2, main's last line exits 0.
ExitCode(h) ==
  CASE h = "done" -> 0
    [] h \in {"usage", "tbinit", "decode", "parse"} -> 1
    [] h \in {"index", "race", "sendclosed"} -> 2

Running == halt = "none"

\* The process as it starts, before flag.Parse.
ProcessInit ==
  /\ mainPc = "flags"
  /\ quotes = EmptyEntry
  /\ interval = 0
  /\ m = "free"
  /\ toVisit = {}
  /\ wpc = [k \in Symbols |-> "idle"]
  /\ warg = [k \in Symbols |-> NoCall]
  /\ wg = 0
  /\ ppc = "off"
  /\ eventClosed = FALSE
  /\ polled = 0
  /\ tbOpen = FALSE
  /\ halt = "none"
  /\ cycles = 0
  /\ screen = <<>>
  /\ registered = {}
  /\ fetched = {}
  /\ atStart = EmptyEntry

\* Every command line: -s given or not, with a list of up to MaxSyms
\* symbols or the empty string; -i given or not.
Init ==
  /\ sSet \in BOOLEAN
  /\ iSet \in BOOLEAN
  /\ symbolFlag \in SymbolLists
  /\ (~sSet => symbolFlag = <<>>)
  /\ intervalFlag \in Intervals
  /\ (~iSet => intervalFlag = DefaultInterval)
  /\ ProcessInit
  /\ raw = <<>>
  /\ extracted = NotExtracted

flagV == <<sSet, iSet, intervalFlag>>

priceV == <<raw, extracted>>

pollV == <<ppc, eventClosed, polled>>

workV == <<toVisit, wpc, warg, wg, m>>

histV == <<registered, fetched, atStart>>

\* The process ends for reason h: its goroutines and its heap end with it.
\* What was asked of it, what reached the terminal and the histories stay.
Ends(h) ==
  /\ halt' = h
  /\ quotes' = EmptyEntry
  /\ interval' = 0
  /\ m' = "free"
  /\ toVisit' = {}
  /\ wpc' = [k \in Symbols |-> "idle"]
  /\ warg' = [k \in Symbols |-> NoCall]
  /\ wg' = 0
  /\ atStart' = EmptyEntry
  /\ UNCHANGED <<flagV, symbolFlag, mainPc, pollV, tbOpen, cycles, screen,
                 registered, fetched, priceV>>

\* ------------------------------------------------------- main: startup

\* flag.Parse, the check of the flags and NewStockWatcher.
ParseFlags ==
  /\ Running /\ mainPc = "flags"
  /\ IF NFlag # 2 \/ symbolFlag = <<>>
     THEN Ends("usage")
     ELSE /\ quotes' = EmptyEntry
          /\ interval' = intervalFlag
          /\ mainPc' = "add"
          /\ UNCHANGED <<flagV, symbolFlag, workV, pollV, tbOpen, halt, cycles,
                         screen, histV, priceV>>

\* One t.add(a) of the loop over strings.Split(*symbolFlag, ","), or the
\* single add of the default case.
Add ==
  /\ Running /\ mainPc = "add" /\ m = "free"
  /\ quotes' = add(quotes, Head(symbolFlag))
  /\ symbolFlag' = Tail(symbolFlag)
  /\ registered' = registered \cup {Head(symbolFlag)}
  /\ mainPc' = IF Len(symbolFlag) = 1 THEN "tbinit" ELSE "add"
  /\ UNCHANGED <<flagV, interval, workV, pollV, tbOpen, halt, cycles, screen,
                 fetched, atStart, priceV>>

\* runner is entered: a fresh WaitGroup, and the range over t.quotes begins.
RunnerStart ==
  /\ cycles' = cycles + 1
  /\ wg' = 0
  /\ toVisit' = DOMAIN quotes
  /\ atStart' = quotes
  /\ mainPc' = "range"

\* termbox.Init succeeds: the screen is cleared, the event channel made, the
\* event-posting goroutine started, and the loop calls runner.
TermboxInit ==
  /\ Running /\ mainPc = "tbinit"
  /\ tbOpen' = TRUE
  /\ ppc' = "poll"
  /\ RunnerStart
  /\ UNCHANGED <<flagV, symbolFlag, quotes, interval, m, wpc, warg, eventClosed,
                 polled, halt, screen, registered, fetched, priceV>>

\* termbox.Init fails: log.Fatal(err).
TermboxInitFail ==
  /\ Running /\ mainPc = "tbinit"
  /\ Ends("tbinit")

\* ---------------------------------------------------------- main: runner

\* One turn of the range loop: the map yields key k (in no fixed order),
\* wg.Add(1), and the worker goroutine for k is started.
RangeNext(k) ==
  /\ Running /\ mainPc = "range" /\ k \in toVisit
  /\ toVisit' = toVisit \ {k}
  /\ wg' = wg + 1
  /\ wpc' = [wpc EXCEPT ![k] = "query"]
  /\ UNCHANGED <<flagV, symbolFlag, mainPc, quotes, interval, m, warg, pollV,
                 tbOpen, halt, cycles, screen, histV, priceV>>

\* The range loop ends and main reaches wg.Wait().
RangeEnd ==
  /\ Running /\ mainPc = "range" /\ toVisit = {}
  /\ mainPc' = "wait"
  /\ UNCHANGED <<flagV, symbolFlag, quotes, interval, workV, pollV, tbOpen, halt,
                 cycles, screen, histV, priceV>>

\* The range loop reads the map, without the mutex, while a worker is inside
\* updateStock writing it: the runtime may end the process with "concurrent
\* map iteration and map write".
RangeFault ==
  /\ Running /\ mainPc = "range"
  /\ \E k \in Symbols : wpc[k] = "locked"
  /\ Ends("race")

\* Wait with the bug of returning whatever the counter reads.
Wait_NoBarrier ==
  /\ Running /\ mainPc = "wait"
  /\ mainPc' = "format"
  /\ wpc' = [k \in Symbols |-> "idle"]
  /\ warg' = [k \in Symbols |-> NoCall]
  /\ atStart' = EmptyEntry
  /\ UNCHANGED <<flagV, symbolFlag, quotes, interval, toVisit, wg, m, pollV,
                 tbOpen, halt, cycles, screen, registered, fetched, priceV>>

\* wg.Wait() returns: the counter is zero.  runner returns with it, and
\* nothing is left of the cycle's goroutines.
Wait ==
  /\ Running /\ mainPc = "wait" /\ wg = 0
  /\ mainPc' = "format"
  /\ wpc' = [k \in Symbols |-> "idle"]
  /\ warg' = [k \in Symbols |-> NoCall]
  /\ atStart' = EmptyEntry
  /\ UNCHANGED <<flagV, symbolFlag, quotes, interval, toVisit, wg, m, pollV,
                 tbOpen, halt, cycles, screen, registered, fetched, priceV>>

\* FormatData with the bug of marking what it printed as seen: each entry's
\* previous is set to its current.
FormatData_MarksSeen ==
  /\ Running /\ mainPc = "format"
  /\ screen' = formatData(quotes)
  /\ quotes' = [k \in DOMAIN quotes |->
                 [previous |-> Get(quotes, k, "current"),
                  current |-> Get(quotes, k, "current")]]
  /\ mainPc' = "select"
  /\ UNCHANGED <<flagV, symbolFlag, interval, workV, pollV, tbOpen, halt,
                 cycles, histV, priceV>>

\* t.formatData(): the rows are printed from the map as it is.
FormatData ==
  /\ Running /\ mainPc = "format"
  /\ screen' = formatData(quotes)
  /\ mainPc' = "select"
  /\ UNCHANGED <<flagV, symbolFlag, quotes, interval, workV, pollV, tbOpen, halt,
                 cycles, histV, priceV>>

\* ---------------------------------------------------------------- workers

\* query(k) returns an error: client.Get failed (transport error, timeout).
\* The worker goes on to t.updateStock(k, 0.00).
QueryErr(k) ==
  /\ Running /\ wpc[k] = "query"
  /\ warg' = [warg EXCEPT ![k] = [symbol |-> k, price |-> 0, ok |-> FALSE]]
  /\ wpc' = [wpc EXCEPT ![k] = "call"]
  /\ UNCHANGED <<flagV, symbolFlag, mainPc, quotes, interval, m, toVisit, wg, pollV,
                 tbOpen, halt, cycles, screen, histV, priceV>>

\* query(k): the body does not decode as JSON: log.Fatalln(err).
QueryDecodeFail(k) ==
  /\ Running /\ wpc[k] = "query"
  /\ Ends("decode")

\* query(k) returns a decoded payload whose resource list is empty:
\* stock.List.Resources[0] panics, index out of range.
QueryNoResources(k) ==
  /\ Running /\ wpc[k] = "query"
  /\ Ends("index")

\* query(k) returns a payload whose first resource carries symbol e and
\* price field p: the arguments of updateStock are evaluated, and
\* convertPrice ends the process when the extracted text is no number.
QueryResp(k, e, p) ==
  /\ Running /\ wpc[k] = "query"
  /\ LET c == convertPrice(reFindString(p))
     IN IF c.fatal
        THEN Ends("parse")
        ELSE /\ warg' = [warg EXCEPT
                           ![k] = [symbol |-> e, price |-> c.price, ok |-> TRUE]]
             /\ wpc' = [wpc EXCEPT ![k] = "call"]
             /\ fetched' = fetched \cup {k}
             /\ UNCHANGED <<flagV, symbolFlag, mainPc, quotes, interval, m,
                            toVisit, wg, pollV, tbOpen, halt, cycles, screen,
                            registered, atStart, priceV>>

\* updateStock: t.m.Lock().
Lock(k) ==
  /\ Running /\ wpc[k] = "call" /\ m = "free"
  /\ m' = k
  /\ wpc' = [wpc EXCEPT ![k] = "locked"]
  /\ UNCHANGED <<flagV, symbolFlag, mainPc, quotes, interval, toVisit, warg, wg,
                 pollV, tbOpen, halt, cycles, screen, histV, priceV>>

\* updateStock: the entry is written, then the deferred Unlock and the
\* worker's deferred wg.Done().  A key created while main's range loop is
\* still running may or may not be produced by that loop.
Update(k) ==
  /\ Running /\ wpc[k] = "locked" /\ m = k
  /\ quotes' = updateStock(quotes, warg[k].symbol, warg[k].price)
  /\ \/ toVisit' = toVisit
     \/ /\ mainPc = "range"
        /\ warg[k].symbol \notin DOMAIN quotes
        /\ toVisit' = toVisit \cup {warg[k].symbol}
  /\ m' = "free"
  /\ wg' = wg - 1
  /\ wpc' = [wpc EXCEPT ![k] = "done"]
  /\ UNCHANGED <<flagV, symbolFlag, mainPc, interval, warg, pollV, tbOpen, halt,
                 cycles, screen, histV, priceV>>

\* ------------------------------------------- main: select and shutdown

\* select takes <-event: the posting goroutine is at its send.
SelectEvent ==
  /\ Running /\ mainPc = "select" /\ ppc = "send"
  /\ ppc' = "poll"
  /\ mainPc' = "close"
  /\ UNCHANGED <<flagV, symbolFlag, quotes, interval, workV, eventClosed, polled,
                 tbOpen, halt, cycles, screen, histV,
                 priceV>>

\* select takes <-time.After(t.interval): the interval, at least a second,
\* elapsed with no sender on event (a waiting sender is taken at once).
\* continue loop: runner is called again.
SelectTimer ==
  /\ Running /\ mainPc = "select" /\ ppc # "send" /\ cycles < MaxCycles
  /\ RunnerStart
  /\ UNCHANGED <<flagV, symbolFlag, quotes, interval, m, wpc, warg, pollV,
                 tbOpen, halt, screen, registered, fetched, priceV>>

\* close(event), then main sleeps for a second.
CloseEvent ==
  /\ Running /\ mainPc = "close"
  /\ eventClosed' = TRUE
  /\ mainPc' = "sleep"
  /\ UNCHANGED <<flagV, symbolFlag, quotes, interval, workV, ppc, polled,
                 tbOpen, halt, cycles, screen, histV, priceV>>

\* The sleep is over: termbox.Close().
TermboxClose ==
  /\ Running /\ mainPc = "sleep"
  /\ tbOpen' = FALSE
  /\ mainPc' = "exit"
  /\ UNCHANGED <<flagV, symbolFlag, quotes, interval, workV, pollV, halt, cycles,
                 screen, histV, priceV>>

\* os.Exit(0).
Exit ==
  /\ Running /\ mainPc = "exit"
  /\ Ends("done")

\* ---------------------------------------------- event-posting goroutine

\* termbox.PollEvent() returns an event; the goroutine reaches its send on
\* the unbuffered channel.
PollEvent ==
  /\ Running /\ ppc = "poll" /\ tbOpen /\ polled < MaxEvents
  /\ ppc' = "send"
  /\ polled' = polled + 1
  /\ UNCHANGED <<flagV, symbolFlag, mainPc, quotes, interval, workV, eventClosed,
                 tbOpen, halt, cycles, screen, histV, priceV>>

\* The send finds the channel closed: panic, send on closed channel.
SendClosed ==
  /\ Running /\ ppc = "send" /\ eventClosed
  /\ Ends("sendclosed")

\* ---------------------------------------------------------- the program

Next ==
  \/ ParseFlags
  \/ Add
  \/ TermboxInit
  \/ TermboxInitFail
  \/ \E k \in Symbols : RangeNext(k)
  \/ RangeEnd
  \/ RangeFault
  \/ Wait
  \/ FormatData
  \/ \E k \in Symbols : QueryErr(k)
  \/ \E k \in Symbols : QueryDecodeFail(k)
  \/ \E k \in Symbols : QueryNoResources(k)
  \/ \E k \in Symbols, e \in Symbols, p \in RawPrices : QueryResp(k, e, p)
  \/ \E k \in Symbols : Lock(k)
  \/ \E k \in Symbols : Update(k)
  \/ SelectEvent
  \/ SelectTimer
  \/ CloseEvent
  \/ TermboxClose
  \/ Exit
  \/ PollEvent
  \/ SendClosed

Spec == Init /\ [][Next]_vars

\* --------------------------------------------------- the program, fairly

\* A step of the main goroutine.
MainStep ==
  \/ ParseFlags
  \/ Add
  \/ TermboxInit
  \/ TermboxInitFail
  \/ \E k \in Symbols : RangeNext(k)
  \/ RangeEnd
  \/ Wait
  \/ FormatData
  \/ SelectEvent
  \/ SelectTimer
  \/ CloseEvent
  \/ TermboxClose
  \/ Exit

\* A step of the worker goroutine for key k: query returns one way or
\* another (the client's TIMEOUT bounds it), then updateStock.
WorkerStep(k) ==
  \/ QueryErr(k)
  \/ QueryDecodeFail(k)
  \/ QueryNoResources(k)
  \/ \E e \in Symbols, p \in RawPrices : QueryResp(k, e, p)
  \/ Lock(k)
  \/ Update(k)

\* The scheduler runs every goroutine that can run.  Nothing obliges the
\* terminal to deliver an event, nor the runtime to detect a race.
FairSpec ==
  /\ Spec
  /\ WF_vars(MainStep)
  /\ \A k \in Symbols : WF_vars(WorkerStep(k))

\* ------------------------------------------------ price extraction alone

\* Every raw price field of up to MaxRawLen characters.
RawStrings == UNION {[1..n -> Chars] : n \in 0..MaxRawLen}

InitPrice ==
  /\ sSet = FALSE
  /\ iSet = FALSE
  /\ symbolFlag = <<>>
  /\ intervalFlag = DefaultInterval
  /\ ProcessInit
  /\ raw \in RawStrings
  /\ extracted = NotExtracted

\* The worker's convertPrice(re.FindString(...Fields.Price)) on raw.
Extract ==
  /\ ~extracted.done
  /\ LET c == convertPrice(reFindString(raw))
     IN extracted' = [done |-> TRUE, fatal |-> c.fatal, price |-> c.price]
  /\ UNCHANGED <<flagV, symbolFlag, mainPc, quotes, interval, workV, pollV,
                 tbOpen, halt, cycles, screen, histV, raw>>

NextPrice == Extract

SpecPrice == InitPrice /\ [][NextPrice]_vars

\* ----------------------------------------------------------- add alone

\* Prices an entry may hold: none yet, 100.00, 110.00.
StorePrices == {0, 10000, 11000}

\* What t.quotes[k] may be: the empty map of add, or the map of updateStock.
Entries ==
  {EmptyEntry} \cup
  {[previous |-> a, current |-> b] : a \in StorePrices, b \in StorePrices}

\* Every store over the symbols.
Stores == UNION {[D -> Entries] : D \in SUBSET Symbols}

InitAdd ==
  /\ sSet = FALSE
  /\ iSet = FALSE
  /\ symbolFlag = <<>>
  /\ intervalFlag = DefaultInterval
  /\ mainPc = "add"
  /\ quotes \in Stores
  /\ interval = 0
  /\ m = "free"
  /\ toVisit = {}
  /\ wpc = [k \in Symbols |-> "idle"]
  /\ warg = [k \in Symbols |-> NoCall]
  /\ wg = 0
  /\ ppc = "off"
  /\ eventClosed = FALSE
  /\ polled = 0
  /\ tbOpen = FALSE
  /\ halt = "none"
  /\ cycles = 0
  /\ screen = <<>>
  /\ registered = {}
  /\ fetched = {}
  /\ atStart = EmptyEntry
  /\ raw = <<>>
  /\ extracted = NotExtracted

\* t.add(symbol) on the store as it is; atStart keeps the store as it was
\* and registered the symbol added.
AddCall(symbol) ==
  /\ mainPc = "add" /\ m = "free"
  /\ quotes' = add(quotes, symbol)
  /\ atStart' = quotes
  /\ registered' = {symbol}
  /\ mainPc' = "added"
  /\ UNCHANGED <<flagV, symbolFlag, interval, workV, pollV, tbOpen, halt,
                 cycles, screen, fetched, priceV>>

NextAdd == \E symbol \in Symbols : AddCall(symbol)

SpecAdd == InitAdd /\ [][NextAdd]_vars

\* ------------------------------------------------------------- properties

\* runner is about to return: every worker it started has finished, and
\* the calls the workers made are still on record.
RunnerReturns == Running /\ mainPc = "wait" /\ wg = 0

\* Every worker of the cycle updated the key it was started for.
OwnKeyUpdates == \A k \in DOMAIN atStart : warg[k].symbol = k

\* C1: for a symbol in the store, right after updateStock(s, p) the entry
\* of s has current = p and previous = the current it had just before the
\* call (0 for a symbol never updated).
C1_UpdateShiftsPrice ==
  [][\A k \in Symbols :
       (wpc[k] = "locked" /\ wpc'[k] = "done" /\ warg[k].symbol \in DOMAIN quotes)
         => /\ warg[k].symbol \in DOMAIN quotes'
            /\ Get(quotes', warg[k].symbol, "current") = warg[k].price
            /\ Get(quotes', warg[k].symbol, "previous")
                 = Get(quotes, warg[k].symbol, "current")]_vars

\* C1 witness: a worker has just updated a stored symbol that held 100.00
\* with 110.00, and the entry reads {previous: 100.00, current: 110.00}.
C1_Witness ==
  \E k \in Symbols :
    /\ wpc[k] = "done"
    /\ warg[k].symbol \in DOMAIN atStart
    /\ warg[k].price = 11000
    /\ Get(quotes, warg[k].symbol, "previous") = 10000
    /\ Get(quotes, warg[k].symbol, "current") = 11000

\* C2: when a cycle returns, the store holds exactly the registered
\* symbols, each with current = the price its own fetch got (0 for a failed
\* fetch), whatever symbol the responses echoed.
C2_CycleKeepsKeys ==
  RunnerReturns =>
    /\ DOMAIN quotes = registered
    /\ \A s \in registered : Get(quotes, s, "current") = warg[s].price

\* C3: no fetch failure ends the process, and at the end of the cycle a
\* symbol whose fetch failed has current = 0.
C3_FetchFailureAbsorbed ==
  /\ halt \notin {"decode", "index", "parse"}
  /\ RunnerReturns =>
       \A k \in DOMAIN atStart :
         ~warg[k].ok => Get(quotes, k, "current") = 0

\* C4: after one updateStock per stored symbol, run concurrently in any
\* order, the sorted key pass of formatData finds exactly those symbols,
\* once each, and each entry holds its own update's price as current and
\* the symbol's prior current as previous.
C4_ConcurrentUpdatesAllLand ==
  (RunnerReturns /\ OwnKeyUpdates) =>
    LET keys == SortStrings(DOMAIN quotes)
    IN /\ Len(keys) = Cardinality(DOMAIN atStart)
       /\ \A i, j \in 1..Len(keys) : i # j => keys[i] # keys[j]
       /\ \A i \in 1..Len(keys) :
            /\ keys[i] \in DOMAIN atStart
            /\ quotes[keys[i]]
                 = [previous |-> Get(atStart, keys[i], "current"),
                    current |-> warg[keys[i]].price]

\* C4 witness: two workers, one per stored symbol, have each updated their
\* own symbol, which already held a price from the cycle before.
C4_Witness ==
  /\ RunnerReturns /\ OwnKeyUpdates
  /\ Cardinality(DOMAIN atStart) = 2
  /\ \A k \in DOMAIN atStart :
       /\ warg[k].ok
       /\ Get(atStart, k, "current") # 0
       /\ warg[k].price # Get(atStart, k, "current")

\* C5: once a cancellation event is sent, during the wait or with a cycle
\* in flight, no further cycle starts; main leaves the loop only with the
\* fan-in complete; and the process, with that one event, ends with exit
\* code 0.
C5_CancelStopsLoop ==
  [][/\ polled >= 1 => cycles' = cycles
     /\ mainPc' \in {"close", "sleep", "exit"} =>
          /\ wg' = 0
          /\ \A k \in Symbols : wpc'[k] \in {"idle", "done"}
     /\ (polled' = 1 /\ halt' # "none") => ExitCode(halt') = 0]_vars

\* C6: with a second cancellation event after the first, wherever it
\* arrives, the run ends as with one: termbox closed, exit code 0.
C6_SecondCancelSameEnd ==
  (polled >= 2 /\ halt # "none") => (ExitCode(halt) = 0 /\ ~tbOpen)

\* C7: a registered symbol whose own fetch has never succeeded has
\* current = previous = 0 and is shown as Flat.
C7_NeverFetchedIsFlat ==
  \A s \in (registered \ fetched) \cap DOMAIN quotes :
    /\ Get(quotes, s, "current") = 0
    /\ Get(quotes, s, "previous") = 0
    /\ Row(quotes, s, 1).arrow = "-"

\* Whether p starts with one or more digits, a dot and two digits.
HasLeadingPrice(p) ==
  LET d == DotAt(p)
  IN /\ d >= 2
     /\ d + 2 <= Len(p)
     /\ \A i \in 1..(d - 1) : IsDigit(p[i])
     /\ IsDigit(p[d + 1])
     /\ IsDigit(p[d + 2])

\* The integer part and the first two fraction digits of such a p, in
\* hundredths.
LeadingPrice(p) ==
  LET d == DotAt(p)
  IN 100 * NatOf(SubSeq(p, 1, d - 1)) + NatOf(SubSeq(p, d + 1, d + 2))

\* C8: a raw price that starts with digits, a dot and two digits yields
\* that integer part with its first two fraction digits; any other raw
\* price yields no price and does not end the process.
C8_ExtractsLeadingPrice ==
  extracted.done =>
    IF HasLeadingPrice(raw)
    THEN ~extracted.fatal /\ extracted.price = LeadingPrice(raw)
    ELSE ~extracted.fatal

RECURSIVE GCD(_, _)
GCD(a, b) == IF b = 0 THEN a ELSE GCD(b, a % b)

\* Whether x is current / previous in millionths, rounded to the nearest.
IsRatio(x, current, previous) ==
  LET g == GCD(current, previous)
      c == current \div g
      p == previous \div g
  IN (2 * x - 1) * p <= 2 * 1000000 * c /\ 2 * 1000000 * c < (2 * x + 1) * p

\* C9: formatData gives each entry one row and one display state: Flat
\* (arrow "-", no figure) iff previous = 0 or previous = current, Up iff
\* previous # 0 and current > previous, Down iff previous # 0 and current <
\* previous; Up and Down show current / previous; rows are in ascending
\* symbol order.
C9_DisplayStates ==
  (Running /\ mainPc = "select") =>
    /\ Len(screen) = Cardinality(DOMAIN quotes)
    /\ {screen[i].symbol : i \in 1..Len(screen)} = DOMAIN quotes
    /\ \A i, j \in 1..Len(screen) :
         i < j => StrLess(screen[i].symbol, screen[j].symbol)
    /\ \A i \in 1..Len(screen) :
         LET r == screen[i]
             previous == Get(quotes, r.symbol, "previous")
             current == Get(quotes, r.symbol, "current")
         IN /\ r.y = i
            /\ r.current = current
            /\ r.arrow \in {"-", UP, DOWN}
            /\ r.arrow = "-" <=> (previous = 0 \/ previous = current)
            /\ r.arrow = UP <=> (previous # 0 /\ current > previous)
            /\ r.arrow = DOWN <=> (previous # 0 /\ current < previous)
            /\ r.arrow = "-" => r.figure = <<>>
            /\ r.arrow # "-" =>
                 /\ Len(r.figure) = 1
                 /\ IsRatio(r.figure[1], current, previous)

\* C9 witness: one screen with an Up row for 100.00 -> 110.00 showing
\* 1.100000 and a Down row for 110.00 -> 100.00 showing 0.909091.
C9_Witness ==
  /\ Running /\ mainPc = "select"
  /\ \E i, j \in 1..Len(screen) :
       /\ screen[i].arrow = UP /\ screen[i].figure = <<1100000>>
       /\ Get(quotes, screen[i].symbol, "previous") = 10000
       /\ Get(quotes, screen[i].symbol, "current") = 11000
       /\ screen[j].arrow = DOWN /\ screen[j].figure = <<909091>>
       /\ Get(quotes, screen[j].symbol, "previous") = 11000
       /\ Get(quotes, screen[j].symbol, "current") = 10000

\* C10: startup ends with the usage text exactly when the symbol list is
\* missing or empty; with a list and no -i it goes on with interval 1.
C10_UsageOnlyForEmptyList ==
  /\ halt = "usage" => symbolFlag = <<>>
  /\ mainPc = "add" => symbolFlag # <<>>
  /\ (Running /\ mainPc # "flags" /\ ~iSet) => interval = DefaultInterval

\* The store as a sorted read finds it: <<symbol, previous, current>> per
\* key, in ascending key order.
Snapshot(q) ==
  LET keys == SortStrings(DOMAIN q)
  IN [i \in 1..Len(keys) |->
        <<keys[i], Get(q, keys[i], "previous"), Get(q, keys[i], "current")>>]

\* C11: the formatData step leaves the store as it was, so a second sorted
\* read right after it gives the same sequence of (symbol, previous,
\* current), and the rows printed are those of that sequence, in its order.
C11_SnapshotLeavesStore ==
  [][(mainPc = "format" /\ mainPc' = "select") =>
       /\ quotes' = quotes
       /\ Snapshot(quotes') = Snapshot(quotes)
       /\ Len(screen') = Len(Snapshot(quotes'))
       /\ \A i \in 1..Len(screen') :
            /\ screen'[i].symbol = Snapshot(quotes')[i][1]
            /\ screen'[i].current = Snapshot(quotes')[i][3]]_vars

\* C11 witness: formatData has printed two rows, one of them for an entry
\* with previous 100.00 and current 110.00, and the store still reads so.
C11_Witness ==
  /\ Running /\ mainPc = "select"
  /\ Len(screen) = 2
  /\ Len(Snapshot(quotes)) = 2
  /\ \E i \in 1..2 :
       /\ Snapshot(quotes)[i][2] = 10000
       /\ Snapshot(quotes)[i][3] = 11000
       /\ screen[i].symbol = Snapshot(quotes)[i][1]
       /\ screen[i].current = 11000

\* Where a worker goroutine is while it runs: from its start to the end of
\* its updateStock call.
LivePcs == {"query", "call", "locked"}

\* C12: runner returns only when no worker it started is still running; a
\* new cycle starts only when no worker is running, so the running workers
\* are all of one cycle; and the WaitGroup's counter is the number of
\* running workers.
C12_CyclesNeverOverlap ==
  [][/\ (mainPc = "wait" /\ mainPc' = "format") =>
          \A k \in Symbols : wpc[k] \notin LivePcs
     /\ cycles' # cycles => \A k \in Symbols : wpc[k] \notin LivePcs
     /\ wg' = Cardinality({k \in Symbols : wpc'[k] \in LivePcs})]_vars

\* C12 witness: the second cycle has a worker inside updateStock while
\* another worker of that cycle has yet to make its call.
C12_Witness ==
  /\ Running /\ cycles = 2
  /\ \E k, j \in Symbols :
       /\ wpc[k] = "locked"
       /\ wpc[j] \in {"query", "call"}
       /\ wg = 2

\* C13: formatData reads the map holding the mutex (the mutex is taken, and
\* not by a worker, when the rows are read), and reads it only when no
\* updateStock call is in progress or still to come in the cycle.
C13_SnapshotUnderLock ==
  [][(mainPc = "format" /\ mainPc' = "select") =>
       /\ m # "free" /\ m \notin Symbols
       /\ \A k \in Symbols : wpc[k] \notin LivePcs]_vars

\* Worker k's updateStock call is the step being taken.
UpdateStepOf(k) == wpc[k] = "locked" /\ wpc'[k] = "done"

\* C14, as the code has it: while the process runs, an entry changes only
\* by being created empty (both fields read 0) or by an updateStock call for
\* its symbol, and every such call, the 0.00 of a failed fetch included,
\* leaves in previous the value current had just before it.
C14_PreviousIsLastCurrent ==
  [][halt' = "none" =>
       \A s \in Symbols :
         \/ /\ s \in DOMAIN quotes <=> s \in DOMAIN quotes'
            /\ s \in DOMAIN quotes => quotes'[s] = quotes[s]
         \/ /\ s \notin DOMAIN quotes
            /\ s \in DOMAIN quotes'
            /\ quotes'[s] = EmptyEntry
         \/ /\ s \in DOMAIN quotes'
            /\ \E k \in Symbols :
                 /\ UpdateStepOf(k)
                 /\ warg[k].symbol = s
                 /\ quotes'[s] = [previous |-> Get(quotes, s, "current"),
                                  current |-> warg[k].price]]_vars

\* C14 witness: a failed fetch has just written 0.00 over a current of
\* 100.00 that a successful fetch had stored, and previous reads 100.00.
C14_Witness ==
  \E k \in Symbols :
    /\ wpc[k] = "done"
    /\ ~warg[k].ok
    /\ k \in fetched
    /\ Get(atStart, k, "current") = 10000
    /\ quotes[k] = [previous |-> 10000, current |-> 0]

\* C14 as stated: previous is the value current had before the most recent
\* update from a successful fetch, so an update from a failed fetch leaves
\* previous as it was, and one from a successful fetch sets it to the
\* current it replaces.
C14_PreviousOfLastSuccess ==
  [][\A k \in Symbols :
       UpdateStepOf(k) =>
         IF warg[k].ok
         THEN Get(quotes', warg[k].symbol, "previous")
                = Get(quotes, warg[k].symbol, "current")
         ELSE Get(quotes', warg[k].symbol, "previous")
                = Get(quotes, warg[k].symbol, "previous")]_vars

RECURSIVE ApplyInOrder(_, _, _)
\* The store after the updateStock calls of the workers ks, made one after
\* the other in the order of ks, on store q.
ApplyInOrder(q, ks, calls) ==
  IF ks = <<>> THEN q
  ELSE ApplyInOrder(updateStock(q, calls[Head(ks)].symbol, calls[Head(ks)].price),
                    Tail(ks), calls)

\* C15: when a cycle whose workers are those of the keys it found returns,
\* the store is the one that the workers' calls give when made in ascending
\* order of the workers' keys, whatever order they were made in: the order
\* of completion does not show in the store.
C15_OrderIndependent ==
  (RunnerReturns /\ {k \in Symbols : wpc[k] = "done"} = DOMAIN atStart) =>
    quotes = ApplyInOrder(atStart, SortStrings(DOMAIN atStart), warg)

\* C16: no updateStock call adds a key: the store never holds a symbol that
\* main has not added.
C16_UpdateAddsNoKey == DOMAIN quotes \subseteq registered

\* C17: every cycle that starts reaches the end of its fan-in, and once a
\* cancellation event has been sent the process reaches its end with the
\* display closed and exit code 0.
C17_CancelReachesStopped ==
  /\ (Running /\ mainPc = "range") ~> (Running /\ mainPc = "format")
  /\ (polled >= 1) ~> (halt = "done" /\ ~tbOpen)

\* C18: runner's range loop is never reading the map while a worker is
\* inside updateStock writing it, and the runtime never ends the process
\* for such a read.
C18_RangeExcludesWrites ==
  /\ ~(Running /\ mainPc = "range" /\ \E k \in Symbols : wpc[k] = "locked")
  /\ halt # "race"

\* C19: when a cycle from the second on returns, every registered symbol's
\* previous is the current it had when the cycle before returned, the cycle
\* having updated each registered symbol exactly once.
C19_OneUpdatePerCycle ==
  (RunnerReturns /\ cycles >= 2) =>
    \A s \in registered :
      /\ Get(quotes, s, "previous") = Get(atStart, s, "current")
      /\ Cardinality({k \in Symbols :
                        wpc[k] = "done" /\ warg[k].symbol = s}) = 1

\* C20: add of a symbol the store holds leaves the store as it was, prices
\* included; add of a symbol it does not hold adds that one key, whose
\* previous and current read 0, and leaves every other entry as it was.
C20_AddFrame ==
  mainPc = "added" =>
    \A s \in registered :
      IF s \in DOMAIN atStart
      THEN quotes = atStart
      ELSE /\ DOMAIN quotes = DOMAIN atStart \cup {s}
           /\ Get(quotes, s, "previous") = 0
           /\ Get(quotes, s, "current") = 0
           /\ \A x \in DOMAIN atStart : quotes[x] = atStart[x]

\* C20 witness: add was called for a symbol stored with previous 100.00 and
\* current 110.00, next to another stored symbol, and both read as before.
C20_Witness ==
  /\ mainPc = "added"
  /\ DOMAIN atStart = Symbols
  /\ \E s \in registered :
       /\ atStart[s] = [previous |-> 10000, current |-> 11000]
       /\ quotes[s] = [previous |-> 10000, current |-> 11000]

====
